---- MODULE Spec2Model ----
(***************************************************************************)
(* The WhatPulse weekly delta pipeline of kochu-apis:                      *)
(*   build-whatpulse.ts  (Numeric-Field Locator and Counter Extractor)     *)
(*   build-weekly.ts     (Snapshot Ledger and Weekly Delta Engine)         *)
(*   fetch-raw.ts        (Raw Snapshot Fetcher)                            *)
(*   the combined runner (the three stages in one invocation)              *)
(* Files are modelled by their parsed JSON content, JavaScript values by   *)
(* tagged records, strings that are searched for substrings by sequences   *)
(* of one-character strings.                                               *)
(***************************************************************************)
EXTENDS Integers, Sequences, FiniteSets, TLC

VARIABLES
    apiFile,        \* api/whatpulse.json
    snapshotsFile,  \* raw-data/whatpulse-weekly-snapshots.json (the ledger)
    weeklyFile,     \* api/whatpulse-weekly.json
    clock,          \* source of new Date().toISOString()
    runs,           \* invocations of the weekly stage started so far
    pc,             \* per invocation slot: position in build-weekly main
    api,            \* per slot: the parsed api/whatpulse.json it read
    snapshot,       \* per slot: the Snapshot built at lines 76-80
    snapshots,      \* per slot: the in-memory ledger array (lines 82-91)
    output,         \* per slot: the WeeklyDelta object about to be written
    before,         \* per slot: the ledger and weekly files when it started
    rawFile,        \* raw-data/whatpulse-raw.json
    field,          \* Locator: the field class last searched for
    acc,            \* Locator: the candidates collectCandidates accumulated
    section,        \* Locator: the section asked of pickBest on acc, if any
    best,           \* Locator: what pickBest returned
    prevCounters,   \* delta: first argument
    currentCounters,\* delta: second argument
    countersDelta,  \* delta: result
    stage,          \* the stage whose invocation acted last
    exitStatus,     \* fetch-raw, build-whatpulse: exit status of that invocation
    filesBefore,    \* fetch-raw, build-whatpulse: the files when it started
    response,       \* fetch-raw: res and responseText of that invocation
    gets,           \* fetch-raw: GET requests that invocation issued
    snippet         \* fetch-raw: the body snippet it wrote to stderr

weeklyVars == <<apiFile, snapshotsFile, weeklyFile, clock, runs, pc, api,
                snapshot, snapshots, output, before>>

locatorVars == <<rawFile, field, acc, section, best>>

deltaVars == <<prevCounters, currentCounters, countersDelta>>

stageVars == <<stage, exitStatus, filesBefore, response, gets, snippet>>

vars == <<weeklyVars, locatorVars, deltaVars, stageVars>>

-----------------------------------------------------------------------------
(* Bounds of the model *)

MaxRuns == 3
MaxCount == 1
MaxInitLen == 1
MaxExcess == 1

Procs == {"scheduled", "manual"}

-----------------------------------------------------------------------------
(* JavaScript / JSON values *)

JNum(n) == [t |-> "num", n |-> n]
JNull == [t |-> "null", n |-> 0]
JUndef == [t |-> "undef", n |-> 0]
JNaN == [t |-> "nan", n |-> 0]
JStr == [t |-> "str", n |-> 0]
\* Infinity and -Infinity; JSON.parse gives Infinity for a number literal
\* beyond the double range
JInf == [t |-> "inf", n |-> 0]
JNegInf == [t |-> "-inf", n |-> 0]

None == <<>>
Some(x) == <<x>>

Fields == {"keys", "clicks", "scrolls", "uptimeSeconds"}

Nullish(v) == v.t \in {"null", "undef"}

\* ToNumber of the operands of binary minus: null is 0, undefined is NaN
JsMinus(a, b) ==
    IF a.t \in {"undef", "nan", "str"} \/ b.t \in {"undef", "nan", "str"}
    THEN JNaN
    ELSE IF a.t \in {"inf", "-inf"}
    THEN IF b.t = a.t THEN JNaN ELSE a
    ELSE IF b.t = "inf" THEN JNegInf
    ELSE IF b.t = "-inf" THEN JInf
    ELSE JNum((IF a.t = "num" THEN a.n ELSE 0) - (IF b.t = "num" THEN b.n ELSE 0))

\* Math.max(0, x): NaN if x is NaN
MathMax0(x) ==
    IF x.t \in {"nan", "inf"} THEN x ELSE JNum(IF x.n > 0 THEN x.n ELSE 0)

\* JSON.stringify of a number-valued property: NaN and the infinities are
\* written as null
StringifyNumber(v) == IF v.t \in {"nan", "inf", "-inf"} THEN JNull ELSE v

\* `${v}` of a string-or-undefined property
TemplateString(v) == IF v = None THEN "undefined" ELSE v[1]

ToISOString(n) == "T" \o ToString(n)

SOURCE == "whatpulse-client-api"
WINDOW == "weekly"
NOTE == "Not enough history yet. Run again next week to compute deltas."

-----------------------------------------------------------------------------
(* build-weekly.ts *)

toNumber(v) == IF v.t = "num" THEN v ELSE JNull

\* a section object holding the four counters of c
Section(c) ==
    [t |-> "obj", keys |-> c.keys, clicks |-> c.clicks,
     scrolls |-> c.scrolls, uptimeSeconds |-> c.uptimeSeconds]

\* a section object with no properties ({})
EmptyObject == [t |-> "obj", keys |-> JUndef, clicks |-> JUndef,
                scrolls |-> JUndef, uptimeSeconds |-> JUndef]

Property(o, f) == IF o.t = "obj" THEN o[f] ELSE JUndef

PreferTotals(a) ==
    IF ~Nullish(a.totals) THEN a.totals
    ELSE IF ~Nullish(a.unpulsed) THEN a.unpulsed
    ELSE EmptyObject

\* api.unpulsed ?? api.totals ?? {}   (line 29)
Prefer(a) ==
    IF ~Nullish(a.unpulsed) THEN a.unpulsed
    ELSE IF ~Nullish(a.totals) THEN a.totals
    ELSE EmptyObject

getCountersFallingBack(a) ==
    IF a.t # "obj"
    THEN [threw |-> TRUE, value |-> [f \in Fields |-> JNull]]
    ELSE LET first == [f \in Fields |-> toNumber(Property(Prefer(a), f))]
             got == [f \in Fields |->
                        IF first[f].t = "null" THEN toNumber(Property(a.totals, f))
                        ELSE first[f]]
         IN [threw |-> \E f \in Fields : got[f].t = "null", value |-> got]

getCountersNoCheck(a) ==
    IF a.t # "obj"
    THEN [threw |-> TRUE, value |-> [f \in Fields |-> JNull]]
    ELSE [threw |-> FALSE,
          value |-> [f \in Fields |-> toNumber(Property(Prefer(a), f))]]

\* lines 28-40; a is the parsed file: reading a property of null throws
getCounters(a) ==
    IF a.t # "obj"
    THEN [threw |-> TRUE, value |-> [f \in Fields |-> JNull]]
    ELSE LET got == [f \in Fields |-> toNumber(Property(Prefer(a), f))]
         IN [threw |-> \E f \in Fields : got[f].t = "null", value |-> got]

deltaOfCurrent(prev, current) ==
    [f \in Fields |-> MathMax0(JsMinus(current[f], JNull))]

deltaNoClamp(prev, current) ==
    [f \in Fields |-> JsMinus(current[f], prev[f])]

delta(prev, current) ==
    [f \in Fields |-> MathMax0(JsMinus(current[f], prev[f]))]

ParseLedgerWrapping(file) ==
    IF file.k = "array" THEN file.items
    ELSE IF file.k = "nonarray" THEN <<[t |-> "null"]>>
    ELSE <<>>

\* JSON.parse of the ledger file, lines 82-89: anything but an array is []
ParseLedger(file) == IF file.k = "array" THEN file.items ELSE <<>>

NewSnapshot(capturedAt, counters) ==
    [t |-> "obj", capturedAt |-> Some(capturedAt), source |-> Some(SOURCE),
     counters |-> Some(counters)]

NoSnapshot == [t |-> "null"]
NoOutput == [k |-> "none"]
MissingFile == [k |-> "missing"]
InvalidFile == [k |-> "invalid"]

Finished(p) == pc[p] \in {"idle", "done", "failed"}

\* lines 99-108: the INSUFFICIENT_HISTORY object
InsufficientOutput(updatedAt) ==
    [k |-> "json", updatedAt |-> updatedAt, source |-> SOURCE, window |-> WINDOW,
     range |-> None, counters |-> None, note |-> Some(NOTE)]

\* lines 114-127: the DELTA_READY object (counters still hold NaN, if any)
DeltaOutputWithNote(updatedAt, prev, current) ==
    [k |-> "json", updatedAt |-> updatedAt, source |-> SOURCE, window |-> WINDOW,
     range |-> Some(TemplateString(prev.capturedAt) \o "/"
                    \o TemplateString(current.capturedAt)),
     counters |-> Some(delta(prev.counters[1], current.counters[1])),
     note |-> Some(NOTE)]

DeltaOutputSwappedRange(updatedAt, prev, current) ==
    [k |-> "json", updatedAt |-> updatedAt, source |-> SOURCE, window |-> WINDOW,
     range |-> Some(TemplateString(current.capturedAt) \o "/"
                    \o TemplateString(prev.capturedAt)),
     counters |-> Some(delta(prev.counters[1], current.counters[1])),
     note |-> None]

DeltaOutput(updatedAt, prev, current) ==
    [k |-> "json", updatedAt |-> updatedAt, source |-> SOURCE, window |-> WINDOW,
     range |-> Some(TemplateString(prev.capturedAt) \o "/"
                    \o TemplateString(current.capturedAt)),
     counters |-> Some(delta(prev.counters[1], current.counters[1])),
     note |-> None]

\* lines 116-117 throw a TypeError when prev is null (prev.capturedAt) or
\* prev.counters is undefined or null (prev.keys inside delta)
DeltaThrows(prev) == prev.t # "obj" \/ prev.counters = None

\* JSON.stringify(output, null, 2): NaN counters are written as null
Stringify(o) ==
    IF o.counters = None THEN o
    ELSE [o EXCEPT !.counters =
              Some([f \in Fields |-> StringifyNumber(o.counters[1][f])])]

-----------------------------------------------------------------------------
(* The weekly stage, one invocation per slot, split at its file accesses *)

NoFiles ==
    [raw |-> MissingFile, api |-> MissingFile, ledger |-> MissingFile, weekly |-> MissingFile]

NoResponse == [k |-> "none"]

\* what is known of a fetch-raw or build-whatpulse process is gone when the
\* next stage is invoked
ProcessExited ==
    /\ exitStatus' = None
    /\ filesBefore' = NoFiles
    /\ response' = NoResponse
    /\ gets' = 0
    /\ snippet' = None

\* the memory of a slot whose process has exited
Exited(f, p, fresh, blank) ==
    [q \in Procs |-> IF q = p THEN fresh ELSE blank]

\* lines 52-80: read and parse api/whatpulse.json, getCounters, build Snapshot.
\* exited: every other slot's process has exited, its memory is gone
StartRun(p, exited) ==
    LET Put(f, fresh, blank) ==
            IF exited THEN Exited(f, p, fresh, blank) ELSE [f EXCEPT ![p] = fresh]
        ok == apiFile.k = "json" /\ ~getCounters(apiFile.value).threw
    IN
    /\ runs < MaxRuns
    /\ runs' = runs + 1
    /\ api' = Put(api, apiFile, MissingFile)
    /\ before' = Put(before, [ledger |-> snapshotsFile, weekly |-> weeklyFile],
                     [ledger |-> MissingFile, weekly |-> MissingFile])
    /\ snapshots' = Put(snapshots, <<>>, <<>>)
    /\ output' = Put(output, NoOutput, NoOutput)
    /\ pc' = Put(pc, IF ok THEN "readLedger" ELSE "failed", "idle")
    /\ snapshot' = Put(snapshot,
                       IF ok THEN NewSnapshot(ToISOString(clock),
                                              getCounters(apiFile.value).value)
                       ELSE NoSnapshot,
                       NoSnapshot)
    /\ clock' = IF ok THEN clock + 1 ELSE clock
    /\ stage' = "build-weekly"
    /\ ProcessExited
    /\ UNCHANGED <<apiFile, snapshotsFile, weeklyFile, locatorVars, deltaVars>>

\* the external invoker enforces mutual exclusion (serialized scheduling)
Invoke(p) ==
    /\ \A q \in Procs : Finished(q)
    /\ StartRun(p, TRUE)

\* a manual run racing a scheduled run: each is started once, unserialized
InvokeOverlapping(p) ==
    /\ pc[p] = "idle"
    /\ StartRun(p, FALSE)

\* lines 82-91: read the ledger (anything unreadable is []), push the Snapshot
ReadLedger(p) ==
    /\ pc[p] = "readLedger"
    /\ snapshots' = [snapshots EXCEPT ![p] = Append(ParseLedger(snapshotsFile), snapshot[p])]
    /\ pc' = [pc EXCEPT ![p] = "writeLedger"]
    /\ UNCHANGED <<apiFile, snapshotsFile, weeklyFile, clock, runs, api, snapshot,
                   output, before, locatorVars, deltaVars, stageVars>>

\* JSON.stringify of one ledger entry: what JSON.parse gave comes back as
\* it was read, except that a counter that is not finite is written as null
StringifyEntry(e) ==
    IF e.t = "obj" /\ e.counters # None
    THEN [e EXCEPT !.counters = Some([f \in Fields |-> StringifyNumber(e.counters[1][f])])]
    ELSE e

\* JSON.stringify(snapshots, null, 2), line 93
StringifyLedger(items) == [i \in 1..Len(items) |-> StringifyEntry(items[i])]

WrittenLedgerDeduplicating(p) ==
    LET n == Len(snapshots[p])
    IN IF /\ n >= 2
          /\ snapshots[p][n - 1].t = "obj"
          /\ snapshots[p][n - 1].counters = snapshot[p].counters
       THEN [k |-> "array", items |-> StringifyLedger(SubSeq(snapshots[p], 1, n - 1))]
       ELSE [k |-> "array", items |-> StringifyLedger(snapshots[p])]

WrittenLedgerOnlyNew(p) == [k |-> "array", items |-> StringifyLedger(<<snapshot[p]>>)]

WrittenLedgerRereading(p) ==
    [k |-> "array",
     items |-> StringifyLedger(Append(ParseLedger(snapshotsFile), snapshot[p]))]

WrittenLedgerNewestFirst(p) ==
    [k |-> "array",
     items |-> StringifyLedger(<<snapshot[p]>>
                               \o SubSeq(snapshots[p], 1, Len(snapshots[p]) - 1))]

\* line 93: the full-file overwrite with the in-memory array
WrittenLedger(p) == [k |-> "array", items |-> StringifyLedger(snapshots[p])]

InsufficientHistoryUpToTwo(n) == n <= 2

\* line 99: snapshots.length < 2
InsufficientHistory(n) == n < 2

\* lines 92-127: write the ledger, then build the WeeklyDelta object
WriteLedger(p) ==
    /\ pc[p] = "writeLedger"
    /\ snapshotsFile' = WrittenLedger(p)
    /\ LET n == Len(snapshots[p])
           updatedAt == snapshot[p].capturedAt[1]
       IN IF InsufficientHistory(n)
          THEN /\ output' = [output EXCEPT ![p] = InsufficientOutput(updatedAt)]
               /\ pc' = [pc EXCEPT ![p] = "writeWeekly"]
          ELSE IF DeltaThrows(snapshots[p][n - 1])
          THEN /\ output' = output
               /\ pc' = [pc EXCEPT ![p] = "failed"]
          ELSE /\ output' = [output EXCEPT ![p] =
                      DeltaOutput(updatedAt, snapshots[p][n - 1], snapshots[p][n])]
               /\ pc' = [pc EXCEPT ![p] = "writeWeekly"]
    /\ UNCHANGED <<apiFile, weeklyFile, clock, runs, api, snapshot, snapshots, before,
                   locatorVars, deltaVars, stageVars>>

\* lines 109 and 128: write api/whatpulse-weekly.json
WriteWeekly(p) ==
    /\ pc[p] = "writeWeekly"
    /\ weeklyFile' = Stringify(output[p])
    /\ pc' = [pc EXCEPT ![p] = "done"]
    /\ UNCHANGED <<apiFile, snapshotsFile, clock, runs, api, snapshot, snapshots,
                   output, before, locatorVars, deltaVars, stageVars>>

-----------------------------------------------------------------------------
(* Strings that are searched: sequences of one-character strings *)

UpperCase == <<"A", "B", "C", "D", "E", "F", "G", "H", "I", "J", "K", "L", "M", "N", "O", "P", "Q", "R", "S", "T", "U", "V", "W", "X", "Y", "Z">>
LowerCase == <<"a", "b", "c", "d", "e", "f", "g", "h", "i", "j", "k", "l", "m", "n", "o", "p", "q", "r", "s", "t", "u", "v", "w", "x", "y", "z">>
Digits == <<"0", "1", "2", "3", "4", "5", "6", "7", "8", "9">>
Whitespace == {" ", "\t", "\n"}

LowerChar(c) ==
    IF \E i \in 1..Len(UpperCase) : UpperCase[i] = c
    THEN LowerCase[CHOOSE i \in 1..Len(UpperCase) : UpperCase[i] = c]
    ELSE c

\* String.prototype.toLowerCase
ToLowerCase(str) == [i \in 1..Len(str) |-> LowerChar(str[i])]

\* .replace(/\s+/g, '')
NotWhitespace(c) == c \notin Whitespace
RemoveWhitespace(str) == SelectSeq(str, NotWhitespace)

\* String.prototype.includes
Includes(str, sub) ==
    \E i \in 0..(Len(str) - Len(sub)) : SubSeq(str, i + 1, i + Len(sub)) = sub

\* path.split('/').pop()
LastSegment(path) ==
    LET slashes == {i \in 1..Len(path) : path[i] = "/"}
        last == IF slashes = {} THEN 0 ELSE CHOOSE i \in slashes : \A j \in slashes : j <= i
    IN SubSeq(path, last + 1, Len(path))

\* `${i}` of an array index
RECURSIVE IndexString(_)
IndexString(i) ==
    IF i < Len(Digits) THEN <<Digits[i + 1]>>
    ELSE IndexString(i \div Len(Digits)) \o <<Digits[(i % Len(Digits)) + 1]>>

-----------------------------------------------------------------------------
(* build-whatpulse.ts: Numeric-Field Locator and Counter Extractor.          *)
(* A parsed JSON document is a tagged record: "num" (finite number),        *)
(* "inf" (a number literal beyond the double range), "null", "str", "array" *)
(* with items, "object" with members in Object.entries order.               *)

FIELD_PATTERNS ==
    [keys |-> {<<"k", "e", "y", "s">>, <<"k", "e", "y", "c", "o", "u", "n", "t">>, <<"k", "e", "y", "s", "t", "r", "o", "k", "e", "s">>},
     clicks |-> {<<"c", "l", "i", "c", "k", "s">>, <<"m", "o", "u", "s", "e", "c", "l", "i", "c", "k", "s">>},
     scrolls |-> {<<"s", "c", "r", "o", "l", "l", "s">>,
                 <<"s", "c", "r", "o", "l", "l", "c", "o", "u", "n", "t">>,
                 <<"m", "o", "u", "s", "e", "s", "c", "r", "o", "l", "l", "s">>},
     uptimeSeconds |-> {<<"u", "p", "t", "i", "m", "e">>,
                       <<"u", "p", "t", "i", "m", "e", "s", "e", "c", "o", "n", "d", "s">>,
                       <<"s", "e", "c", "o", "n", "d", "s">>}]

TOTALS_PATH_HINTS == <<<<"t", "o", "t", "a", "l", "s">>,
                       <<"t", "o", "t", "a", "l">>,
                       <<"a", "c", "c", "o", "u", "n", "t", "t", "o", "t", "a", "l", "s">>>>

UNPULSED_PATH_HINTS == <<<<"u", "n", "p", "u", "l", "s", "e", "d">>,
                         <<"u", "n", "p", "u", "l", "s", "e">>,
                         <<"p", "e", "n", "d", "i", "n", "g">>>>

S_unpulse == <<"u", "n", "p", "u", "l", "s", "e">>
S_pending == <<"p", "e", "n", "d", "i", "n", "g">>
S_total == <<"t", "o", "t", "a", "l">>
S_data == <<"d", "a", "t", "a">>

DNum(n) == [t |-> "num", n |-> n]
DInf == [t |-> "inf"]
DNull == [t |-> "null"]
DStr == [t |-> "str"]
DArray(items) == [t |-> "array", items |-> items]
DObject(members) == [t |-> "object", members |-> members]
Member(k, v) == [key |-> k, val |-> v]

\* lines 48-54
RECURSIVE pathScore(_, _)
pathScore(pathLower, hints) ==
    IF hints = <<>> THEN 0
    ELSE (IF Includes(pathLower, Head(hints)) THEN 10 ELSE 0)
         + pathScore(pathLower, Tail(hints))

SectionTagTotalFirst(pathLower) ==
    IF Includes(pathLower, S_total) THEN "totals"
    ELSE IF Includes(pathLower, S_unpulse) \/ Includes(pathLower, S_pending) THEN "unpulsed"
    ELSE "none"

\* lines 69-73
SectionTag(pathLower) ==
    IF Includes(pathLower, S_unpulse) \/ Includes(pathLower, S_pending) THEN "unpulsed"
    ELSE IF Includes(pathLower, S_total) THEN "totals"
    ELSE "none"

KeyMatchesOneWay(key, patterns) ==
    \E pat \in patterns : Includes(key, pat)

\* line 68: patterns.some((p) => key.includes(p) || p.includes(key))
KeyMatches(key, patterns) ==
    \E pat \in patterns : Includes(key, pat) \/ Includes(pat, key)

\* lines 56-91; returns what the call appends to acc, in order
RECURSIVE collectCandidates(_, _, _, _, _)
RECURSIVE collectItems(_, _, _, _, _, _)
RECURSIVE collectMembers(_, _, _, _, _, _)

collectCandidates(obj, path, pathLower, fld, patterns) ==
    IF obj.t = "null" THEN <<>>
    ELSE IF obj.t = "num" THEN
        LET key == RemoveWhitespace(ToLowerCase(LastSegment(path)))
        IN IF KeyMatches(key, patterns)
           THEN <<[value |-> obj.n, path |-> path, pathLower |-> pathLower,
                   section |-> SectionTag(pathLower)]>>
           ELSE <<>>
    ELSE IF obj.t = "array" THEN collectItems(obj.items, 1, path, pathLower, fld, patterns)
    ELSE IF obj.t = "object" THEN collectMembers(obj.members, 1, path, pathLower, fld, patterns)
    ELSE <<>>

\* line 80: obj.forEach((item, i) => ... `${path}/${i}`, pathLower ...)
collectItems(items, i, path, pathLower, fld, patterns) ==
    IF i > Len(items) THEN <<>>
    ELSE collectCandidates(items[i], path \o <<"/">> \o IndexString(i - 1),
                           pathLower, fld, patterns)
         \o collectItems(items, i + 1, path, pathLower, fld, patterns)

\* lines 85-89: for (const [k, v] of Object.entries(obj))
collectMembers(members, i, path, pathLower, fld, patterns) ==
    IF i > Len(members) THEN <<>>
    ELSE LET k == members[i].key
             nextPath == IF path # <<>> THEN path \o <<"/">> \o k ELSE k
             nextLower == RemoveWhitespace(pathLower \o <<"/">> \o ToLowerCase(k))
         IN collectCandidates(members[i].val, nextPath, nextLower, fld, patterns)
            \o collectMembers(members, i + 1, path, pathLower, fld, patterns)

InsertByScoreBeforeTies(c, sorted, hints) ==
    LET after == {i \in 1..Len(sorted) :
                     pathScore(sorted[i].pathLower, hints) <= pathScore(c.pathLower, hints)}
        at == IF after = {} THEN Len(sorted) + 1
              ELSE CHOOSE i \in after : \A j \in after : i <= j
    IN SubSeq(sorted, 1, at - 1) \o <<c>> \o SubSeq(sorted, at, Len(sorted))

\* Array.prototype.sort((a, b) => score(b) - score(a)): stable, descending
RECURSIVE SortByScore(_, _)
InsertByScore(c, sorted, hints) ==
    LET after == {i \in 1..Len(sorted) :
                     pathScore(sorted[i].pathLower, hints) < pathScore(c.pathLower, hints)}
        at == IF after = {} THEN Len(sorted) + 1
              ELSE CHOOSE i \in after : \A j \in after : i <= j
    IN SubSeq(sorted, 1, at - 1) \o <<c>> \o SubSeq(sorted, at, Len(sorted))

SortByScore(candidates, hints) ==
    IF candidates = <<>> THEN <<>>
    ELSE InsertByScore(candidates[Len(candidates)],
                       SortByScore(SubSeq(candidates, 1, Len(candidates) - 1), hints),
                       hints)

pickBestAmongUntagged(candidates, sec) ==
    LET filtered == SelectSeq(candidates, LAMBDA c : c.section = sec)
        any == SelectSeq(candidates, LAMBDA c : c.section = "none")
        hints == IF sec = "totals" THEN TOTALS_PATH_HINTS ELSE UNPULSED_PATH_HINTS
    IN IF Len(filtered) = 0
       THEN LET sorted == SortByScore(any, hints)
            IN IF sorted = <<>> THEN None ELSE Some(sorted[1])
       ELSE Some(SortByScore(filtered, hints)[1])

\* lines 93-109; in the fallback branch `any` is computed and not used: the
\* sort runs over all the candidates, scored with the requested section's hints
pickBest(candidates, sec) ==
    LET filtered == SelectSeq(candidates, LAMBDA c : c.section = sec)
        hints == IF sec = "totals" THEN TOTALS_PATH_HINTS ELSE UNPULSED_PATH_HINTS
    IN IF Len(filtered) = 0
       THEN LET sorted == SortByScore(candidates, hints)
            IN IF sorted = <<>> THEN None ELSE Some(sorted[1])
       ELSE Some(SortByScore(filtered, hints)[1])

\* lines 111-124
extractSection(data, sec) ==
    [f \in Fields |->
        LET found == pickBest(collectCandidates(data, <<>>, <<>>, f, FIELD_PATTERNS[f]), sec)
        IN IF found # None THEN JNum(found[1].value) ELSE JNull]

\* line 150: parsed.data ?? parsed
HasData(parsed) ==
    /\ parsed.t = "object"
    /\ \E i \in 1..Len(parsed.members) :
          parsed.members[i].key = S_data /\ parsed.members[i].val.t # "null"

Unwrap(parsed) ==
    IF HasData(parsed)
    THEN parsed.members[CHOOSE i \in 1..Len(parsed.members) : parsed.members[i].key = S_data].val
    ELSE parsed

\* line 151
TopLevelKeys(data) ==
    IF data.t = "object" THEN [i \in 1..Len(data.members) |-> data.members[i].key] ELSE <<>>

\* lines 161-171
DetectedPaths(data) ==
    [sec \in {"totals", "unpulsed"} |->
        [f \in Fields |->
            LET found == pickBest(collectCandidates(data, <<>>, <<>>, f, FIELD_PATTERNS[f]), sec)
            IN IF found # None THEN Some(found[1].path) ELSE None]]

WhatPulseOutputAllOrNothing(data) ==
    LET totals == extractSection(data, "totals")
        unpulsedSection == extractSection(data, "unpulsed")
        hasUnpulsed == \A f \in Fields : unpulsedSection[f].t # "null"
    IN [t |-> "obj",
        totals |-> Section(totals),
        unpulsed |-> IF hasUnpulsed THEN Section(unpulsedSection) ELSE JNull,
        debug |-> [topLevelKeys |-> TopLevelKeys(data),
                   detectedPaths |-> DetectedPaths(data)]]

\* lines 153-182: the NormalizedReport object
WhatPulseOutput(data) ==
    LET totals == extractSection(data, "totals")
        unpulsedSection == extractSection(data, "unpulsed")
        hasUnpulsed == \E f \in Fields : unpulsedSection[f].t # "null"
    IN [t |-> "obj",
        totals |-> Section(totals),
        unpulsed |-> IF hasUnpulsed THEN Section(unpulsedSection) ELSE JNull,
        debug |-> [topLevelKeys |-> TopLevelKeys(data),
                   detectedPaths |-> DetectedPaths(data)]]

-----------------------------------------------------------------------------
(* Inputs: contents the files can have when a run starts *)

CounterChoice(n) ==
    [keys |-> JNum(n), clicks |-> JNum(MaxCount - n),
     scrolls |-> JNum(2 * n), uptimeSeconds |-> JNum(3 * n)]

FullSections == {Section(CounterChoice(n)) : n \in 0..MaxCount}

AllNullSection ==
    [t |-> "obj", keys |-> JNull, clicks |-> JNull,
     scrolls |-> JNull, uptimeSeconds |-> JNull]

\* one field null, the others resolved
PartialNullSection ==
    [t |-> "obj", keys |-> JNull, clicks |-> JNum(1),
     scrolls |-> JNum(1), uptimeSeconds |-> JNum(1)]

\* one field of a non-number type, one field absent
PartialJunkSection ==
    [t |-> "obj", keys |-> JNum(1), clicks |-> JNum(1),
     scrolls |-> JUndef, uptimeSeconds |-> JStr]

TotalsChoices == {AllNullSection, Section(CounterChoice(MaxCount))}
UnpulsedChoices == {JNull, PartialNullSection, PartialJunkSection} \cup FullSections

Report(totals, unpulsed) ==
    [k |-> "json", value |-> [t |-> "obj", totals |-> totals, unpulsed |-> unpulsed]]

ApiFiles ==
    {MissingFile, InvalidFile, [k |-> "json", value |-> [t |-> "null"]]}
    \cup {Report(tt, uu) : tt \in TotalsChoices, uu \in UnpulsedChoices}
    \cup {Report(Section(CounterChoice(MaxCount)), JUndef)}

\* entries a prior ledger array can hold: Snapshots, and JSON that is none
EntryShapes ==
    {"good", "null", "noCounters", "missingField", "nullField", "noCapturedAt", "hugeField"}

PriorEntry(shape, i) ==
    LET at == "P" \o ToString(i)
        good == CounterChoice(0)
    IN CASE shape = "good" -> NewSnapshot(at, good)
         [] shape = "null" -> [t |-> "null"]
         [] shape = "noCounters" ->
              [t |-> "obj", capturedAt |-> Some(at), source |-> Some(SOURCE), counters |-> None]
         [] shape = "missingField" -> NewSnapshot(at, [good EXCEPT !.keys = JUndef])
         [] shape = "nullField" -> NewSnapshot(at, [good EXCEPT !.clicks = JNull])
         [] shape = "hugeField" -> NewSnapshot(at, [good EXCEPT !.scrolls = JInf])
         [] shape = "noCapturedAt" ->
              [t |-> "obj", capturedAt |-> None, source |-> Some(SOURCE), counters |-> Some(good)]

ShapeSeqs == UNION {[1..n -> EntryShapes] : n \in 0..MaxInitLen}

LedgerFiles ==
    {MissingFile, InvalidFile, [k |-> "nonarray"]}
    \cup {[k |-> "array", items |-> [i \in 1..Len(ss) |-> PriorEntry(ss[i], i)]] : ss \in ShapeSeqs}

\* documents the upstream endpoint can answer with
SectionKeys == {<<"t", "o", "t", "a", "l", "s">>,
                <<"T", "o", "t", "a", "l", " ", "S", "t", "a", "t", "s">>,
                <<"t", "o", " ", "t", "a", "l">>,
                <<"u", "n", "p", "u", "l", "s", "e", "d">>,
                <<"P", "e", "n", "d", "i", "n", "g">>,
                <<"p", "e", "n", "d", "i", "n", "g", " ", "t", "o", "t", "a", "l", "s">>,
                <<"a", "c", "c", "o", "u", "n", "t">>,
                <<"s", "t", "a", "t", "s">>}

LeafKeys == {<<"k", "e", "y", "s">>,
             <<"K", "e", "y", " ", "C", "o", "u", "n", "t">>,
             <<"c", "l", "i", "c", "k", "s">>,
             <<"s">>,
             <<"u", "p", "t", "i", "m", "e">>,
             <<"n", "a", "m", "e">>,
             <<"s", "c", "r", "o", "l", "l", "s">>,
             <<"S", "e", "c", "o", "n", "d", "s">>}

S_keys == <<"k", "e", "y", "s">>
S_clicks == <<"c", "l", "i", "c", "k", "s">>
S_scrolls == <<"s", "c", "r", "o", "l", "l", "s">>
S_uptime == <<"u", "p", "t", "i", "m", "e">>
S_stats == <<"s", "t", "a", "t", "s">>
S_totals == <<"t", "o", "t", "a", "l", "s">>
S_unpulsed == <<"u", "n", "p", "u", "l", "s", "e", "d">>
S_to_tal == <<"t", "o", " ", "t", "a", "l">>
S_Key_Count == <<"K", "e", "y", " ", "C", "o", "u", "n", "t">>
S_keys_min == <<"k", "e", "y", "s", "/", "m", "i", "n">>
S_max_Keys == <<"m", "a", "x", "/", "K", "e", "y", "s">>
S_fetchedAt == <<"_", "f", "e", "t", "c", "h", "e", "d", "A", "t">>
S_source == <<"_", "s", "o", "u", "r", "c", "e">>

\* what fetch-raw writes: {_fetchedAt, _source, data}
RawCapture(data) ==
    DObject(<<Member(S_fetchedAt, DStr), Member(S_source, DStr), Member(S_data, data)>>)

\* {stats: {totals: {keys: 500, clicks: 300, scrolls: 10, uptime: 7200}}}
ScenarioA ==
    DObject(<<Member(S_stats, DObject(<<Member(S_totals,
        DObject(<<Member(S_keys, DNum(500)), Member(S_clicks, DNum(300)),
                  Member(S_scrolls, DNum(10)), Member(S_uptime, DNum(7200))>>))>>))>>)

FourCounters(a, b, c, d) ==
    DObject(<<Member(S_keys, DNum(a)), Member(S_clicks, DNum(b)),
              Member(S_scrolls, DNum(c)), Member(S_uptime, DNum(d))>>)

OneLeafDocs ==
    {DObject(<<Member(sk, DObject(<<Member(lk, DNum(7))>>))>>) :
        sk \in SectionKeys, lk \in LeafKeys}

TwoSectionDocs ==
    {DObject(<<Member(s1, DObject(<<Member(S_keys, DNum(1))>>)),
               Member(s2, DObject(<<Member(S_keys, DNum(2))>>))>>) :
        s1 \in SectionKeys, s2 \in SectionKeys}

SpecialDocs ==
    {ScenarioA,
     DObject(<<Member(S_totals, FourCounters(9, 8, 7, 6)),
               Member(S_unpulsed, FourCounters(1, 2, 3, 4))>>),
     DObject(<<Member(S_unpulsed, DObject(<<Member(S_keys, DNum(5))>>)),
               Member(S_totals, FourCounters(9, 8, 7, 6))>>),
     DArray(<<DObject(<<Member(S_totals, DObject(<<Member(S_keys, DNum(1))>>))>>), DNum(5)>>),
     DObject(<<Member(S_totals, DObject(<<Member(S_keys, DArray(<<DNum(3), DNum(4)>>))>>))>>),
     DObject(<<Member(S_totals, DObject(<<Member(<<>>, DNum(5))>>))>>),
     DObject(<<Member(S_totals, DObject(<<Member(S_keys, DInf), Member(S_clicks, DStr),
                                          Member(S_scrolls, DNull)>>))>>),
     DObject(<<Member(S_data, DNull), Member(S_keys, DNum(2))>>),
     DObject(<<Member(S_to_tal, DObject(<<Member(S_keys, DNum(1))>>)),
               Member(S_totals, DObject(<<Member(S_keys, DNum(2)),
                                          Member(S_Key_Count, DNum(3))>>))>>),
     DObject(<<Member(S_totals, DObject(<<Member(S_Key_Count, DNum(5)),
                                          Member(S_clicks, DNum(3))>>))>>),
     DObject(<<Member(S_totals, DObject(<<Member(S_keys_min, DNum(5)),
                                          Member(S_max_Keys, DNum(6))>>))>>),
     DObject(<<>>),
     DNum(5)}

RawFiles ==
    {MissingFile, InvalidFile, [k |-> "json", value |-> DNull]}
    \cup {[k |-> "json", value |-> RawCapture(d)] : d \in OneLeafDocs \cup SpecialDocs}
    \cup {[k |-> "json", value |-> d] : d \in TwoSectionDocs \cup SpecialDocs}

-----------------------------------------------------------------------------
(* fetch-raw.ts: the Raw Snapshot Fetcher *)

\* String.prototype.trim
Trim(text) ==
    IF \A i \in 1..Len(text) : text[i] \in Whitespace THEN <<>>
    ELSE LET first == CHOOSE i \in 1..Len(text) :
                         /\ text[i] \notin Whitespace
                         /\ \A j \in 1..(i - 1) : text[j] \in Whitespace
             last == CHOOSE i \in 1..Len(text) :
                         /\ text[i] \notin Whitespace
                         /\ \A j \in (i + 1)..Len(text) : text[j] \in Whitespace
         IN SubSeq(text, first, last)

\* line 147: maxLen: number = 200
maxLen == 200

\* lines 147-151
safeSnippet(text, max) ==
    LET s == Trim(text)
    IN IF Len(s) <= max THEN s ELSE SubSeq(s, 1, max) \o <<".", ".", ".">>

\* the JSON text of a document
RECURSIVE JsonText(_)
RECURSIVE JsonItems(_, _)
RECURSIVE JsonMembers(_, _)

JsonText(doc) ==
    CASE doc.t = "num" -> IndexString(doc.n)
      [] doc.t = "inf" -> <<"1", "e", "9", "9", "9">>
      [] doc.t = "null" -> <<"n", "u", "l", "l">>
      [] doc.t = "str" -> <<"\"", "\"">>
      [] doc.t = "array" -> <<"[">> \o JsonItems(doc.items, 1) \o <<"]">>
      [] doc.t = "object" -> <<"{">> \o JsonMembers(doc.members, 1) \o <<"}">>

JsonItems(items, i) ==
    IF i > Len(items) THEN <<>>
    ELSE (IF i > 1 THEN <<",">> ELSE <<>>) \o JsonText(items[i]) \o JsonItems(items, i + 1)

JsonMembers(members, i) ==
    IF i > Len(members) THEN <<>>
    ELSE (IF i > 1 THEN <<",">> ELSE <<>>)
         \o <<"\"">> \o members[i].key \o <<"\"", ":">> \o JsonText(members[i].val)
         \o JsonMembers(members, i + 1)

\* the documents the upstream endpoint answers with
UpstreamDocs ==
    {ScenarioA, DObject(<<>>), DNull}

UpstreamTexts == [d \in UpstreamDocs |-> JsonText(d)]

\* JSON.parse: the document a text is the JSON text of, surrounding
\* whitespace allowed; None when it throws
ParseJSON(text) ==
    LET trimmed == Trim(text)
        docs == {d \in UpstreamDocs : UpstreamTexts[d] = trimmed}
    IN IF docs = {} THEN None ELSE Some(CHOOSE d \in docs : TRUE)

XText(n) == [i \in 1..n |-> "x"]

\* response bodies: JSON texts, and texts that are no JSON (an error page, an
\* empty body, long bodies)
Bodies ==
    {UpstreamTexts[d] : d \in UpstreamDocs}
    \cup {<<" ">> \o JsonText(ScenarioA) \o <<"\n">>,
          <<"o", "o", "p", "s">>,
          <<>>,
          XText(maxLen - 1),
          <<"\t">> \o XText(maxLen) \o <<" ", "\n">>}
    \cup {XText(maxLen + e) : e \in 1..MaxExcess}

\* fetch rejected: no response
NetworkError == [k |-> "error"]

Responses ==
    {NetworkError} \cup {[k |-> "res", ok |-> o, text |-> t] : o \in BOOLEAN, t \in Bodies}

\* lines 157-173: how the invocation goes on after the GET
FetchOutcome(res) ==
    IF res.k = "error" THEN "rejected"
    ELSE IF ~res.ok THEN "http"
    ELSE IF ParseJSON(res.text) = None THEN "notjson"
    ELSE "ok"

RawFileAfterTruncating(res, old) ==
    IF FetchOutcome(res) = "ok"
    THEN [k |-> "json", value |-> RawCapture(ParseJSON(res.text)[1])]
    ELSE IF FetchOutcome(res) = "rejected" THEN old
    ELSE InvalidFile

\* lines 175-185: raw-data/whatpulse-raw.json after the invocation
RawFileAfter(res, old) ==
    IF FetchOutcome(res) = "ok"
    THEN [k |-> "json", value |-> RawCapture(ParseJSON(res.text)[1])]
    ELSE old

Files ==
    [raw |-> rawFile, api |-> apiFile, ledger |-> snapshotsFile, weekly |-> weeklyFile]

\* no build-weekly process is left when another stage is invoked
WeeklyExited ==
    /\ pc' = [p \in Procs |-> "idle"]
    /\ api' = [p \in Procs |-> MissingFile]
    /\ snapshot' = [p \in Procs |-> NoSnapshot]
    /\ snapshots' = [p \in Procs |-> <<>>]
    /\ output' = [p \in Procs |-> NoOutput]
    /\ before' = [p \in Procs |-> [ledger |-> MissingFile, weekly |-> MissingFile]]

\* fetch-raw main, lines 153-187: one GET, then exit 1 with a snippet of the
\* body, or the raw capture written
FetchRawMain ==
    /\ \A q \in Procs : Finished(q)
    /\ \E res \in Responses :
          /\ response' = res
          /\ snippet' = IF FetchOutcome(res) \in {"http", "notjson"}
                        THEN Some(safeSnippet(res.text, maxLen))
                        ELSE None
          /\ exitStatus' = Some(IF FetchOutcome(res) = "ok" THEN 0 ELSE 1)
          /\ rawFile' = RawFileAfter(res, rawFile)
    /\ gets' = 1
    /\ stage' = "fetch-raw"
    /\ filesBefore' = Files
    /\ WeeklyExited
    /\ UNCHANGED <<apiFile, snapshotsFile, weeklyFile, clock, runs,
                   field, acc, section, best, deltaVars>>

-----------------------------------------------------------------------------
(* The Extractor stage and the Locator's functions *)

\* lines 130-150: the raw capture is missing, unreadable or no JSON (exit 1),
\* or it is the JSON null and parsed.data throws
ExtractorFails(raw) == raw.k # "json" \/ raw.value.t = "null"

ApiFileAfterDefaulting(raw, old) ==
    IF raw.k = "json" /\ raw.value.t # "null"
    THEN [k |-> "json", value |-> WhatPulseOutput(Unwrap(raw.value))]
    ELSE [k |-> "json", value |-> WhatPulseOutput(DObject(<<>>))]

\* lines 184-186: api/whatpulse.json after the invocation
ApiFileAfter(raw, old) ==
    IF ExtractorFails(raw) THEN old
    ELSE [k |-> "json", value |-> WhatPulseOutput(Unwrap(raw.value))]

BuildWhatPulseMainConsuming ==
    /\ \A q \in Procs : Finished(q)
    /\ apiFile' = ApiFileAfter(rawFile, apiFile)
    /\ rawFile' = IF ExtractorFails(rawFile) THEN rawFile ELSE MissingFile
    /\ exitStatus' = Some(IF ExtractorFails(rawFile) THEN 1 ELSE 0)
    /\ stage' = "build-whatpulse"
    /\ filesBefore' = Files
    /\ response' = NoResponse
    /\ gets' = 0
    /\ snippet' = None
    /\ WeeklyExited
    /\ UNCHANGED <<snapshotsFile, weeklyFile, clock, runs, field, acc, section, best,
                   deltaVars>>

\* build-whatpulse.ts main, lines 126-188: a missing or unparsable raw capture
\* ends the run before anything is written
BuildWhatPulseMain ==
    /\ \A q \in Procs : Finished(q)
    /\ apiFile' = ApiFileAfter(rawFile, apiFile)
    /\ exitStatus' = Some(IF ExtractorFails(rawFile) THEN 1 ELSE 0)
    /\ stage' = "build-whatpulse"
    /\ filesBefore' = Files
    /\ response' = NoResponse
    /\ gets' = 0
    /\ snippet' = None
    /\ WeeklyExited
    /\ UNCHANGED <<snapshotsFile, weeklyFile, clock, runs, locatorVars, deltaVars>>

\* collectCandidates(data, '', '', field, FIELD_PATTERNS[field], acc)
CollectCandidates(f) ==
    /\ rawFile.k = "json"
    /\ rawFile.value.t # "null"
    /\ field' = f
    /\ acc' = collectCandidates(Unwrap(rawFile.value), <<>>, <<>>, f, FIELD_PATTERNS[f])
    /\ section' = "none"
    /\ best' = None
    /\ UNCHANGED <<weeklyVars, rawFile, deltaVars, stageVars>>

\* pickBest(acc, section)
PickBest(sec) ==
    /\ field # "none"
    /\ section' = sec
    /\ best' = pickBest(acc, sec)
    /\ UNCHANGED <<weeklyVars, rawFile, field, acc, deltaVars, stageVars>>

\* delta(prev, current)
Delta ==
    /\ countersDelta = None
    /\ countersDelta' = Some(delta(prevCounters, currentCounters))
    /\ UNCHANGED <<weeklyVars, locatorVars, prevCounters, currentCounters, stageVars>>

-----------------------------------------------------------------------------
(* Specifications *)

\* the Extractor stage (or anything else) rewrote api/whatpulse.json
WriteApiFile ==
    /\ runs < MaxRuns
    /\ \A q \in Procs : Finished(q)
    /\ \E a \in ApiFiles : apiFile' = a
    /\ stage' = "other"
    /\ UNCHANGED <<snapshotsFile, weeklyFile, clock, runs, pc, api, snapshot,
                   snapshots, output, before, locatorVars, deltaVars,
                   exitStatus, filesBefore, response, gets, snippet>>

InitSlots ==
    /\ clock = 0
    /\ runs = 0
    /\ pc = [p \in Procs |-> "idle"]
    /\ api = [p \in Procs |-> MissingFile]
    /\ snapshot = [p \in Procs |-> NoSnapshot]
    /\ snapshots = [p \in Procs |-> <<>>]
    /\ output = [p \in Procs |-> NoOutput]
    /\ before = [p \in Procs |-> [ledger |-> MissingFile, weekly |-> MissingFile]]

InitLocator ==
    /\ field = "none"
    /\ acc = <<>>
    /\ section = "none"
    /\ best = None

InitStage ==
    /\ stage = "none"
    /\ exitStatus = None
    /\ filesBefore = NoFiles
    /\ response = NoResponse
    /\ gets = 0
    /\ snippet = None

CounterSets == [Fields -> {JNull} \cup {JNum(n) : n \in 0..MaxCount}]

InitDelta ==
    /\ prevCounters = [f \in Fields |-> JNull]
    /\ currentCounters = [f \in Fields |-> JNull]
    /\ countersDelta = None

\* a fresh checkout: no ledger, no weekly delta, serialized runs
Init ==
    /\ apiFile = MissingFile
    /\ snapshotsFile = MissingFile
    /\ weeklyFile = MissingFile
    /\ InitSlots
    /\ rawFile = MissingFile
    /\ InitLocator
    /\ InitDelta
    /\ InitStage

Next ==
    \/ WriteApiFile
    \/ \E p \in Procs : Invoke(p)
    \/ \E p \in Procs : ReadLedger(p)
    \/ \E p \in Procs : WriteLedger(p)
    \/ \E p \in Procs : WriteWeekly(p)

Spec == Init /\ [][Next]_vars

\* serialized runs over whatever the ledger file held before
InitAnyLedger ==
    /\ apiFile = MissingFile
    /\ snapshotsFile \in LedgerFiles
    /\ weeklyFile = MissingFile
    /\ InitSlots
    /\ rawFile = MissingFile
    /\ InitLocator
    /\ InitDelta
    /\ InitStage

SpecAnyLedger == InitAnyLedger /\ [][Next]_vars

\* serialized runs against one report that nothing rewrites in between
InitUnchangedReport ==
    /\ apiFile \in ApiFiles
    /\ snapshotsFile \in LedgerFiles
    /\ weeklyFile = MissingFile
    /\ InitSlots
    /\ rawFile = MissingFile
    /\ InitLocator
    /\ InitDelta
    /\ InitStage

NextUnchangedReport ==
    \/ \E p \in Procs : Invoke(p)
    \/ \E p \in Procs : ReadLedger(p)
    \/ \E p \in Procs : WriteLedger(p)
    \/ \E p \in Procs : WriteWeekly(p)

SpecUnchangedReport == InitUnchangedReport /\ [][NextUnchangedReport]_vars

\* two invocations sharing the ledger path, not serialized
NextRace ==
    \/ WriteApiFile
    \/ \E p \in Procs : InvokeOverlapping(p)
    \/ \E p \in Procs : ReadLedger(p)
    \/ \E p \in Procs : WriteLedger(p)
    \/ \E p \in Procs : WriteWeekly(p)

SpecRace == InitAnyLedger /\ [][NextRace]_vars

\* the Extractor over whatever raw capture the Fetcher left
InitRawCapture ==
    /\ apiFile = MissingFile
    /\ snapshotsFile = MissingFile
    /\ weeklyFile = MissingFile
    /\ InitSlots
    /\ rawFile \in RawFiles
    /\ InitLocator
    /\ InitDelta
    /\ InitStage

NextLocator ==
    \/ BuildWhatPulseMain
    \/ \E f \in Fields : CollectCandidates(f)
    \/ \E sec \in {"totals", "unpulsed"} : PickBest(sec)

SpecLocator == InitRawCapture /\ [][NextLocator]_vars

\* the Extractor and the weekly stage over whatever raw capture the Fetcher
\* left: every report the weekly stage reads was written by the Extractor
NextExtracted ==
    \/ BuildWhatPulseMain
    \/ \E p \in Procs : Invoke(p)
    \/ \E p \in Procs : ReadLedger(p)
    \/ \E p \in Procs : WriteLedger(p)
    \/ \E p \in Procs : WriteWeekly(p)

SpecExtracted == InitRawCapture /\ [][NextExtracted]_vars

\* the three stages, invoked one at a time in any order, over files a previous
\* run or a damaged checkout left
InitPipeline ==
    /\ apiFile \in {MissingFile, InvalidFile, Report(Section(CounterChoice(0)), JNull)}
    /\ snapshotsFile \in {MissingFile, [k |-> "array", items |-> <<PriorEntry("good", 1)>>]}
    /\ weeklyFile = MissingFile
    /\ InitSlots
    /\ rawFile \in {MissingFile, InvalidFile}
    /\ InitLocator
    /\ InitDelta
    /\ InitStage

NextPipeline ==
    \/ FetchRawMain
    \/ BuildWhatPulseMain
    \/ \E p \in Procs : Invoke(p)
    \/ \E p \in Procs : ReadLedger(p)
    \/ \E p \in Procs : WriteLedger(p)
    \/ \E p \in Procs : WriteWeekly(p)

SpecPipeline == InitPipeline /\ [][NextPipeline]_vars

\* the combined runner after its git pull (lines 76-94) went through: the
\* working tree holds whatever earlier invocations committed
InitRunner ==
    /\ apiFile \in {MissingFile, Report(Section(CounterChoice(0)), JNull)}
    /\ snapshotsFile \in {MissingFile,
                          [k |-> "array", items |-> <<PriorEntry("good", 1)>>],
                          [k |-> "array", items |-> <<PriorEntry("null", 1)>>]}
    /\ weeklyFile = MissingFile
    /\ InitSlots
    /\ rawFile \in {MissingFile, InvalidFile, [k |-> "json", value |-> RawCapture(ScenarioA)]}
    /\ InitLocator
    /\ InitDelta
    /\ InitStage

\* await fetchRawMain(): the first stage of the invocation
RunnerFetchRaw ==
    /\ stage = "none"
    /\ FetchRawMain

RunnerBuildWhatPulseRegardless ==
    /\ stage = "fetch-raw"
    /\ BuildWhatPulseMain

\* await buildWhatPulseMain(): reached when fetchRawMain returned; its
\* process.exit(1) ends the runner with it
RunnerBuildWhatPulse ==
    /\ stage = "fetch-raw"
    /\ exitStatus = Some(0)
    /\ BuildWhatPulseMain

\* await buildWeeklyMain(): reached when buildWhatPulseMain returned; what it
\* throws is caught at line 124 and ends the runner with status 1
RunnerBuildWeekly ==
    /\ stage = "build-whatpulse"
    /\ exitStatus = Some(0)
    /\ Invoke("scheduled")

NextRunner ==
    \/ RunnerFetchRaw
    \/ RunnerBuildWhatPulse
    \/ RunnerBuildWeekly
    \/ \E p \in Procs : ReadLedger(p)
    \/ \E p \in Procs : WriteLedger(p)
    \/ \E p \in Procs : WriteWeekly(p)

SpecRunner == InitRunner /\ [][NextRunner]_vars

\* delta over every pair of CounterSets
InitCounterSets ==
    /\ apiFile = MissingFile
    /\ snapshotsFile = MissingFile
    /\ weeklyFile = MissingFile
    /\ InitSlots
    /\ rawFile = MissingFile
    /\ InitLocator
    /\ prevCounters \in CounterSets
    /\ currentCounters \in CounterSets
    /\ countersDelta = None
    /\ InitStage

SpecDelta == InitCounterSets /\ [][Delta]_vars

-----------------------------------------------------------------------------
(* Vocabulary of the claims *)

Max0(x) == IF x > 0 THEN x ELSE 0

MinOf(x, y) == IF x < y THEN x ELSE y

\* slot p's run has overwritten the ledger file
Appended(p) ==
    \/ pc[p] \in {"writeWeekly", "done"}
    \/ pc[p] = "failed" /\ snapshots[p] # <<>>

\* a ledger entry that is a Snapshot with four numeric counters
WellFormedSnapshot(e) ==
    /\ e.t = "obj"
    /\ e.capturedAt # None
    /\ e.counters # None
    /\ \A f \in Fields : e.counters[1][f].t = "num"

\* length of the history a ledger file stands for
LengthBefore(file) == IF file.k = "array" THEN Len(file.items) ELSE 0

FullSection(sec) == sec.t = "obj" /\ \A f \in Fields : sec[f].t = "num"

InsufficientShape(w) == w.range = None /\ w.counters = None /\ w.note # None

DeltaShape(w) == w.range # None /\ w.counters # None /\ w.note = None

-----------------------------------------------------------------------------
(* C1..C7, C9: the weekly stage *)

\* C1: for every completed run, whatever the prior ledger file contained:
\* ledger length 1 after the append gives range = null, counters = null and a
\* note; length >= 2 gives a range, counters with all four fields non-null,
\* and note = null.
C1_StateMachineBoundary ==
    \A p \in Procs :
        pc[p] = "done" =>
            /\ weeklyFile.k = "json"
            /\ IF Len(snapshots[p]) = 1
               THEN InsufficientShape(weeklyFile)
               ELSE /\ DeltaShape(weeklyFile)
                    /\ \A f \in Fields : weeklyFile.counters[1][f].t = "num"

\* C2: in DELTA_READY, current is the Snapshot this run appended and prev the
\* entry right before it; each of the four written counters is
\* max(0, current - prev) of that field alone, and range is
\* prev.capturedAt "/" current.capturedAt.
C2_DeltaReady ==
    \A p \in Procs :
        LET n == Len(snapshots[p]) IN
        (/\ pc[p] = "done"
         /\ n >= 2
         /\ WellFormedSnapshot(snapshots[p][n - 1]))
        =>
        LET prev == snapshotsFile.items[n - 1]
            current == snapshotsFile.items[n]
        IN /\ Len(snapshotsFile.items) = n
           /\ current = snapshot[p]
           /\ prev = before[p].ledger.items[Len(before[p].ledger.items)]
           /\ weeklyFile.counters # None
           /\ \A f \in Fields :
                weeklyFile.counters[1][f] =
                    JNum(Max0(current.counters[1][f].n - prev.counters[1][f].n))
           /\ weeklyFile.range =
                Some(prev.capturedAt[1] \o "/" \o current.capturedAt[1])

\* C2 witness: a delta was written in which one field grew and another fell
C2_Witness ==
    \E p \in Procs :
        LET n == Len(snapshots[p]) IN
        /\ pc[p] = "done"
        /\ n >= 2
        /\ WellFormedSnapshot(snapshots[p][n - 1])
        /\ snapshots[p][n].counters[1].keys.n > snapshots[p][n - 1].counters[1].keys.n
        /\ snapshots[p][n].counters[1].clicks.n < snapshots[p][n - 1].counters[1].clicks.n

\* C4: after the append the last ledger entry is exactly the new Snapshot and
\* the ledger is one longer than before, a missing, unparsable or non-array
\* ledger file counting as length 0.
C4_AppendMonotonicity ==
    \A p \in Procs :
        Appended(p) =>
            /\ snapshotsFile.k = "array"
            /\ Len(snapshotsFile.items) = LengthBefore(before[p].ledger) + 1
            /\ snapshotsFile.items[Len(snapshotsFile.items)] = snapshot[p]

\* C4 witness: an append over a ledger file that was corrupt
C4_Witness ==
    \E p \in Procs :
        /\ Appended(p)
        /\ before[p].ledger.k \in {"invalid", "nonarray"}

\* C5: a run whose NormalizedReport has no section with four non-null
\* counters fails before any write: ledger and weekly delta files are as they
\* were when the run started.
C5_UnresolvableFields ==
    \A p \in Procs :
        (/\ pc[p] # "idle"
         /\ api[p].k = "json"
         /\ api[p].value.t = "obj"
         /\ ~FullSection(api[p].value.unpulsed)
         /\ ~FullSection(api[p].value.totals))
        =>
        /\ pc[p] = "failed"
        /\ snapshotsFile = before[p].ledger
        /\ weeklyFile = before[p].weekly

\* C5 witness: totals all-null and unpulsed null, over an existing ledger and
\* an existing weekly delta
C5_Witness ==
    \E p \in Procs :
        /\ pc[p] = "failed"
        /\ api[p] = Report(AllNullSection, JNull)
        /\ before[p].ledger.k = "array"
        /\ Len(before[p].ledger.items) >= 2
        /\ before[p].weekly.k = "json"

\* C6: starting from an absent ledger, every entry of the ledger file is a
\* Snapshot whose four counters are all numbers, whatever runs succeeded or
\* failed.
C6_NoPartialSnapshot ==
    snapshotsFile.k = "array" =>
        \A i \in 1..Len(snapshotsFile.items) :
            WellFormedSnapshot(snapshotsFile.items[i])

\* C6 witness: a failed run after two appended Snapshots
C6_Witness ==
    /\ snapshotsFile.k = "array"
    /\ Len(snapshotsFile.items) >= 2
    /\ \E p \in Procs : pc[p] = "failed"

\* C7: every written WeeklyDelta has range and counters and no note, or a
\* note and neither range nor counters.
C7_ExactlyOneShape ==
    weeklyFile.k = "json" =>
        \/ DeltaShape(weeklyFile)
        \/ InsufficientShape(weeklyFile)

\* C7 witness: a delta-shaped record written over a malformed previous entry
C7_Witness ==
    /\ weeklyFile.k = "json"
    /\ DeltaShape(weeklyFile)
    /\ \E f \in Fields : weeklyFile.counters[1][f].t = "null"

\* C9: when both invocations have written the ledger: if both had read the
\* ledger (length n) before either wrote, the file has length n + 1 and holds
\* exactly one of the two new Snapshots; otherwise (serialized) it has length
\* n + 2 and holds both.
C9_LastWriterWins ==
    \A p, q \in Procs :
        (p # q /\ Appended(p) /\ Appended(q)) =>
            LET n == MinOf(Len(snapshots[p]), Len(snapshots[q])) - 1
                held(s) == \E i \in 1..Len(snapshotsFile.items) : snapshotsFile.items[i] = s
            IN IF Len(snapshots[p]) = Len(snapshots[q])
               THEN /\ Len(snapshotsFile.items) = n + 1
                    /\ held(snapshot[p]) # held(snapshot[q])
               ELSE /\ Len(snapshotsFile.items) = n + 2
                    /\ held(snapshot[p])
                    /\ held(snapshot[q])

\* C9 witness: both invocations completed and one append is lost
C9_Witness ==
    \E p, q \in Procs :
        /\ p # q
        /\ pc[p] = "done"
        /\ pc[q] = "done"
        /\ Len(snapshots[p]) = Len(snapshots[q])
        /\ Len(snapshotsFile.items) = Len(snapshots[p])
        /\ snapshotsFile.items[Len(snapshotsFile.items)] = snapshot[q]
        /\ \A i \in 1..Len(snapshotsFile.items) : snapshotsFile.items[i] # snapshot[p]

-----------------------------------------------------------------------------
(* C3: delta *)

\* the number a counter field stands for in a subtraction (null counts as 0)
Reading(v) == IF v.t = "num" THEN v.n ELSE 0

\* C3: for every pair of CounterSets, every field of delta(prev, current) is a
\* number >= 0; a field whose current reading is below the previous one
\* yields 0, and every other field is current - prev.
C3_DeltaNonNegative ==
    countersDelta # None =>
        \A f \in Fields :
            LET d == countersDelta[1][f]
                was == Reading(prevCounters[f])
                now == Reading(currentCounters[f])
            IN /\ d.t = "num"
               /\ d.n >= 0
               /\ now < was => d.n = 0
               /\ now >= was => d.n = now - was

\* C3 witness: keys was reset while clicks grew
C3_Witness ==
    /\ countersDelta # None
    /\ prevCounters.keys.t = "num"
    /\ currentCounters.keys.t = "num"
    /\ currentCounters.keys.n < prevCounters.keys.n
    /\ countersDelta[1].keys = JNum(0)
    /\ countersDelta[1].clicks.n > 0

-----------------------------------------------------------------------------
(* C8, C10: the Extractor and the Locator *)

\* C8: for the raw capture {data: {stats: {totals: {keys: 500, clicks: 300,
\* scrolls: 10, uptime: 7200}}}} the Extractor writes totals = {keys: 500,
\* clicks: 300, scrolls: 10, uptimeSeconds: 7200} and unpulsed = null.
C8_ScenarioA ==
    (rawFile = [k |-> "json", value |-> RawCapture(ScenarioA)] /\ apiFile.k = "json") =>
        /\ apiFile.value.totals =
              Section([keys |-> JNum(500), clicks |-> JNum(300),
                       scrolls |-> JNum(10), uptimeSeconds |-> JNum(7200)])
        /\ apiFile.value.unpulsed = JNull

-----------------------------------------------------------------------------
(* C11: collectCandidates against the numeric leaves of the document *)

\* the finite numeric leaves of a document in depth-first order, each with its
\* own key (member name, array index, nothing for the root) and its path
RECURSIVE Leaves(_, _, _)
RECURSIVE ItemLeaves(_, _, _)
RECURSIVE MemberLeaves(_, _, _)

Leaves(doc, key, path) ==
    IF doc.t = "num" THEN <<[value |-> doc.n, key |-> key, path |-> path]>>
    ELSE IF doc.t = "array" THEN ItemLeaves(doc.items, 1, path)
    ELSE IF doc.t = "object" THEN MemberLeaves(doc.members, 1, path)
    ELSE <<>>

ItemLeaves(items, i, path) ==
    IF i > Len(items) THEN <<>>
    ELSE Leaves(items[i], IndexString(i - 1), path \o <<"/">> \o IndexString(i - 1))
         \o ItemLeaves(items, i + 1, path)

MemberLeaves(members, i, path) ==
    IF i > Len(members) THEN <<>>
    ELSE Leaves(members[i].val, members[i].key,
                IF path # <<>> THEN path \o <<"/">> \o members[i].key ELSE members[i].key)
         \o MemberLeaves(members, i + 1, path)

\* the leaves of the document the Locator was run on
DocumentLeaves == Leaves(Unwrap(rawFile.value), <<>>, <<>>)

\* substring match in either direction
MatchesEitherWay(key, patterns) ==
    \E pat \in patterns : Includes(key, pat) \/ Includes(pat, key)

IsCandidate(leaf) ==
    \E i \in 1..Len(acc) : acc[i].path = leaf.path /\ acc[i].value = leaf.value

\* the candidates are exactly the leaves whose key, read by keyOf, matches
CandidatesAreMatches(keyOf(_)) ==
    field # "none" =>
        LET leaves == DocumentLeaves
            matches(l) == MatchesEitherWay(keyOf(l), FIELD_PATTERNS[field])
        IN /\ \A j \in 1..Len(leaves) : matches(leaves[j]) => IsCandidate(leaves[j])
           /\ \A i \in 1..Len(acc) :
                 \E j \in 1..Len(leaves) :
                    /\ leaves[j].path = acc[i].path
                    /\ leaves[j].value = acc[i].value
                    /\ matches(leaves[j])

OwnKeyLowerCased(leaf) == ToLowerCase(leaf.key)

LastSegmentNormalised(leaf) == RemoveWhitespace(ToLowerCase(LastSegment(leaf.path)))

-----------------------------------------------------------------------------
(* C12: the unpulsed section of the NormalizedReport *)

\* the Locator finds a value for field class f in section sec of the raw capture
Resolved(f, sec) ==
    pickBest(collectCandidates(Unwrap(rawFile.value), <<>>, <<>>, f, FIELD_PATTERNS[f]),
             sec) # None

\* C12: in every NormalizedReport the Extractor writes, unpulsed is null if
\* and only if none of keys, clicks, scrolls, uptimeSeconds resolved in the
\* unpulsed section; when at least one resolved, unpulsed is the four-field
\* record in which the resolved fields are numbers and the others null.
C12_UnpulsedCollapse ==
    apiFile.k = "json" =>
        LET u == apiFile.value.unpulsed IN
        /\ u = JNull <=> \A f \in Fields : ~Resolved(f, "unpulsed")
        /\ u # JNull =>
              /\ u.t = "obj"
              /\ \A f \in Fields :
                    IF Resolved(f, "unpulsed") THEN u[f].t = "num" ELSE u[f] = JNull

\* C12 witness: a report whose unpulsed section has a resolved and an
\* unresolved field
C12_Witness ==
    /\ apiFile.k = "json"
    /\ apiFile.value.unpulsed # JNull
    /\ \E f \in Fields : apiFile.value.unpulsed[f].t = "num"
    /\ \E f \in Fields : apiFile.value.unpulsed[f] = JNull

-----------------------------------------------------------------------------
(* C13: a corrupt ledger file *)

CorruptLedger(file) == file.k \in {"invalid", "nonarray"}

\* C13: a run that built its Snapshot over a ledger file that is not valid
\* JSON, or is JSON but no array, does not fail; once it has written the
\* ledger the file holds exactly the new Snapshot, and when it is done the
\* weekly file is the INSUFFICIENT_HISTORY record (no range, no counters, the
\* note).
C13_CorruptLedger ==
    \A p \in Procs :
        (CorruptLedger(before[p].ledger) /\ snapshot[p] # NoSnapshot) =>
            /\ pc[p] # "failed"
            /\ Appended(p) => snapshotsFile = [k |-> "array", items |-> <<snapshot[p]>>]
            /\ pc[p] = "done" =>
                  /\ weeklyFile = InsufficientOutput(snapshot[p].capturedAt[1])
                  /\ InsufficientShape(weeklyFile)

\* C13 witness: a completed run over a ledger file that held JSON but no array
C13_Witness ==
    \E p \in Procs :
        /\ pc[p] = "done"
        /\ before[p].ledger.k = "nonarray"
        /\ Len(snapshotsFile.items) = 1
        /\ InsufficientShape(weeklyFile)

-----------------------------------------------------------------------------
(* C14..C17: the stages and their files *)

\* the exit status of the weekly stage's process in slot p
WeeklyExitStatus(p) ==
    IF pc[p] = "failed" THEN Some(1) ELSE IF pc[p] = "done" THEN Some(0) ELSE None

AbsentOrNotJson(file) == file.k \in {"missing", "invalid"}

\* C14: when the response has a non-2xx status, or a 2xx status and a body
\* that is no JSON, the Fetcher exits with status 1 after exactly one GET and
\* the raw capture file is what it was before the invocation.
C14_FetchFailure ==
    (/\ stage = "fetch-raw"
     /\ response.k = "res"
     /\ (~response.ok \/ ParseJSON(response.text) = None))
    =>
    /\ exitStatus = Some(1)
    /\ gets = 1
    /\ rawFile = filesBefore.raw

\* C14 witness: a 2xx response whose body is no JSON, over an existing raw
\* capture
C14_Witness ==
    /\ stage = "fetch-raw"
    /\ response.k = "res"
    /\ response.ok
    /\ ParseJSON(response.text) = None
    /\ filesBefore.raw.k = "json"
    /\ rawFile = filesBefore.raw
    /\ exitStatus = Some(1)

\* C15: for every response body, the body snippet the Fetcher writes in an
\* error diagnostic is at most 200 characters long.
C15_SnippetAtMost200 ==
    snippet # None => Len(snippet[1]) <= maxLen

\* C16: the Extractor over a raw capture that is absent or no JSON exits
\* with status 1 and leaves the NormalizedReport file as it was; the weekly
\* stage over a NormalizedReport that is absent or no JSON exits with status
\* 1 and leaves the ledger and the weekly delta file as they were.
C16_MissingPrecondition ==
    /\ (stage = "build-whatpulse" /\ AbsentOrNotJson(filesBefore.raw)) =>
          /\ exitStatus = Some(1)
          /\ apiFile = filesBefore.api
    /\ \A p \in Procs :
          (pc[p] # "idle" /\ AbsentOrNotJson(api[p])) =>
              /\ WeeklyExitStatus(p) = Some(1)
              /\ snapshotsFile = before[p].ledger
              /\ weeklyFile = before[p].weekly

\* C16 witness: the Extractor failed on a raw capture that is no JSON, over an
\* existing NormalizedReport
C16_Witness ==
    /\ stage = "build-whatpulse"
    /\ filesBefore.raw.k = "invalid"
    /\ exitStatus = Some(1)
    /\ apiFile.k = "json"

\* the weekly stage failed on a NormalizedReport that is no JSON, over an
\* existing ledger
C16_WeeklyCase ==
    \E p \in Procs :
        /\ pc[p] = "failed"
        /\ api[p].k = "invalid"
        /\ before[p].ledger.k = "array"

\* C17: every step of the Fetcher leaves the NormalizedReport, the ledger and
\* the weekly delta file unchanged; every step of the Extractor leaves the raw
\* capture, the ledger and the weekly delta file unchanged; every step of the
\* weekly stage leaves the raw capture and the NormalizedReport unchanged,
\* whether the invocation succeeds or fails.
C17_OneWriter ==
    [][/\ stage' = "fetch-raw" => UNCHANGED <<apiFile, snapshotsFile, weeklyFile>>
       /\ stage' = "build-whatpulse" => UNCHANGED <<rawFile, snapshotsFile, weeklyFile>>
       /\ stage' = "build-weekly" => UNCHANGED <<rawFile, apiFile>>]_vars

\* C17 witness: the three stages have each written their files, the weekly
\* stage last
C17_Witness ==
    /\ stage = "build-weekly"
    /\ \E p \in Procs : pc[p] = "done"
    /\ rawFile.k = "json"
    /\ apiFile.k = "json"
    /\ "debug" \in DOMAIN apiFile.value
    /\ snapshotsFile.k = "array"
    /\ weeklyFile.k = "json"

-----------------------------------------------------------------------------
(* C18..C20: pickBest *)

\* pickBest was asked for a section none of the candidates is tagged with
Fallback ==
    /\ section # "none"
    /\ \A i \in 1..Len(acc) : acc[i].section # section

OtherSection(sec) == IF sec = "totals" THEN "unpulsed" ELSE "totals"

HintsOf(sec) == IF sec = "totals" THEN TOTALS_PATH_HINTS ELSE UNPULSED_PATH_HINTS

\* number of the hints that occur in the lower-cased path
HintCount(pathLower, hints) ==
    Cardinality({h \in 1..Len(hints) : Includes(pathLower, hints[h])})

\* position of a candidate in the depth-first order of the document's leaves
LeafPosition(c) ==
    CHOOSE j \in 1..Len(DocumentLeaves) :
        DocumentLeaves[j].path = c.path /\ DocumentLeaves[j].value = c.value

\* c is, among the candidates in pool, one of maximal hint count and the
\* first of those in document order
FirstOfTheBest(c, pool, hints) ==
    /\ c \in pool
    /\ \A d \in pool :
          /\ HintCount(d.pathLower, hints) <= HintCount(c.pathLower, hints)
          /\ (d # c /\ HintCount(d.pathLower, hints) = HintCount(c.pathLower, hints))
                => LeafPosition(c) < LeafPosition(d)

Tagged(sec) == {acc[i] : i \in {j \in 1..Len(acc) : acc[j].section = sec}}

\* C18: when no candidate carries the requested tag, pickBest returns a
\* candidate tagged "none", never one tagged with the other section, and null
\* when there is no candidate tagged "none".
C18_FallbackOnlyUntagged ==
    Fallback =>
        IF Tagged("none") = {} THEN best = None
        ELSE best # None /\ best[1].section = "none"

C20_FallbackOtherHints ==
    (Fallback /\ acc # <<>>) =>
        /\ best # None
        /\ FirstOfTheBest(best[1], {acc[i] : i \in 1..Len(acc)},
                          HintsOf(OtherSection(section)))

-----------------------------------------------------------------------------
(* C21, C22: the ledger across a run *)

\* C21: after a run of the weekly stage that ended fatally, over a prior
\* ledger file that parses as a JSON array (well-formed entries or not), the
\* ledger file and the weekly delta file are exactly what they were before
\* the run.
C21_NoPartialSideEffect ==
    \A p \in Procs :
        (pc[p] = "failed" /\ before[p].ledger.k = "array") =>
            /\ snapshotsFile = before[p].ledger
            /\ weeklyFile = before[p].weekly

WrittenBackAsRead(e) ==
    e.t = "obj" /\ e.counters # None => \A f \in Fields : e.counters[1][f].t # "inf"

-----------------------------------------------------------------------------
(* C23: which section the Snapshot's counters come from *)

\* C23: when the report's unpulsed section is an object with four numbers,
\* the Snapshot's counters are exactly unpulsed's, whatever totals holds; when
\* unpulsed is null and totals has four numbers, the Snapshot's counters are
\* exactly totals' and the run does not fail.
C23_PrefersUnpulsed ==
    \A p \in Procs :
        (pc[p] # "idle" /\ api[p].k = "json" /\ api[p].value.t = "obj") =>
            LET a == api[p].value
            IN /\ FullSection(a.unpulsed) =>
                     /\ snapshot[p] # NoSnapshot
                     /\ \A f \in Fields : snapshot[p].counters[1][f] = a.unpulsed[f]
               /\ (a.unpulsed = JNull /\ FullSection(a.totals)) =>
                     /\ snapshot[p] # NoSnapshot
                     /\ \A f \in Fields : snapshot[p].counters[1][f] = a.totals[f]
                     /\ pc[p] # "failed"

\* C23 witness: a finished run over a report whose unpulsed and totals
\* sections are both complete and differ, after an earlier run whose Snapshot
\* came from totals
C23_Witness ==
    \E p \in Procs :
        /\ pc[p] = "done"
        /\ api[p].k = "json" /\ api[p].value.t = "obj"
        /\ FullSection(api[p].value.unpulsed)
        /\ FullSection(api[p].value.totals)
        /\ \E f \in Fields : api[p].value.unpulsed[f] # api[p].value.totals[f]
        /\ Len(snapshotsFile.items) >= 2
        /\ \E f \in Fields :
              snapshotsFile.items[1].counters[1][f] # snapshot[p].counters[1][f]

-----------------------------------------------------------------------------
(* C24: the combined runner *)

\* a stage of the invocation has ended with exit status 1
RunnerFailed ==
    \/ stage \in {"fetch-raw", "build-whatpulse"} /\ exitStatus = Some(1)
    \/ \E p \in Procs : pc[p] = "failed"

\* the weekly stage is between its start and its end
WeeklyRunning == \E p \in Procs : pc[p] \in {"readLedger", "writeLedger", "writeWeekly"}

\* C24: in one invocation of the combined runner every step is taken in the
\* order Fetcher, Extractor, ledger append, delta write: the Fetcher runs
\* first and once, the Extractor only after the Fetcher ended with status 0,
\* the weekly stage only after the Extractor ended with status 0, the ledger
\* is written before the weekly delta file, no step is taken after a stage
\* has failed, and no stage is started a second time.
C24_StageOrder ==
    [][/\ ~RunnerFailed
       /\ stage' = "fetch-raw" => stage = "none"
       /\ stage' = "build-whatpulse" => stage = "fetch-raw" /\ exitStatus = Some(0)
       /\ stage' = "build-weekly" =>
              \/ stage = "build-whatpulse" /\ exitStatus = Some(0)
              \/ stage = "build-weekly" /\ WeeklyRunning
       /\ rawFile' # rawFile => stage = "none"
       /\ apiFile' # apiFile => stage = "fetch-raw"
       /\ snapshotsFile' # snapshotsFile =>
              /\ stage = "build-weekly"
              /\ weeklyFile' = weeklyFile
              /\ \A p \in Procs : ~Appended(p)
       /\ weeklyFile' # weeklyFile =>
              /\ stage = "build-weekly"
              /\ snapshotsFile' = snapshotsFile
              /\ \E p \in Procs : Appended(p) /\ snapshotsFile = WrittenLedger(p)
      ]_vars

\* C24 witness: an invocation that went through all four steps: the raw
\* capture fetched, the report extracted from it, the Snapshot appended to a
\* ledger of one entry and the delta written
C24_Witness ==
    /\ stage = "build-weekly"
    /\ pc["scheduled"] = "done"
    /\ rawFile.k = "json"
    /\ apiFile.k = "json"
    /\ snapshotsFile.k = "array" /\ Len(snapshotsFile.items) = 2
    /\ snapshotsFile.items[2] = snapshot["scheduled"]
    /\ weeklyFile # MissingFile /\ DeltaShape(weeklyFile)

-----------------------------------------------------------------------------
(* C25: delta of a CounterSet with itself *)

\* C25: for every CounterSet a, each of the four fields of delta(a, a) is
\* the number 0.
C25_DeltaOfEqualInputs ==
    (countersDelta # None /\ prevCounters = currentCounters) =>
        \A f \in Fields : countersDelta[1][f] = JNum(0)

\* C25 witness: delta applied to two equal CounterSets with a positive field
\* and a null field
C25_Witness ==
    /\ countersDelta # None
    /\ prevCounters = currentCounters
    /\ \E f \in Fields : currentCounters[f].t = "num" /\ currentCounters[f].n > 0
    /\ \E f \in Fields : currentCounters[f] = JNull
    /\ \A f \in Fields : countersDelta[1][f] = JNum(0)

-----------------------------------------------------------------------------
(* C26: two runs against one report *)

\* C26: the weekly stage is not idempotent: when it has run twice in
\* sequence against the same unchanged report and the second run is done, the
\* ledger holds what it held before the two runs followed by two Snapshots
\* with equal counters (the report's), captured at the two runs' times, and
\* the weekly delta file holds the second run's record: all four counters 0
\* and a range from the first run's capture time to the second's.
C26_NotIdempotent ==
    \A p \in Procs :
        (runs = 2 /\ pc[p] = "done") =>
            LET n == Len(snapshotsFile.items)
                c == getCounters(apiFile.value).value
            IN /\ n >= 2
               /\ snapshotsFile.items[n - 1] = NewSnapshot(ToISOString(0), c)
               /\ snapshotsFile.items[n] = NewSnapshot(ToISOString(1), c)
               /\ \A i \in 1..(n - 2) :
                     \E shape \in EntryShapes :
                         snapshotsFile.items[i] = StringifyEntry(PriorEntry(shape, i))
               /\ Len(before[p].ledger.items) = n - 1
               /\ weeklyFile.k = "json"
               /\ weeklyFile.updatedAt = ToISOString(1)
               /\ weeklyFile.range = Some(ToISOString(0) \o "/" \o ToISOString(1))
               /\ weeklyFile.counters = Some([f \in Fields |-> JNum(0)])
               /\ weeklyFile.note = None

\* C26 witness: the second of two runs is done over a ledger that held one
\* entry before them, the report's counters not all 0
C26_Witness ==
    \E p \in Procs :
        /\ runs = 2
        /\ pc[p] = "done"
        /\ Len(snapshotsFile.items) = 3
        /\ snapshotsFile.items[2].counters = snapshotsFile.items[3].counters
        /\ \E f \in Fields : snapshotsFile.items[3].counters[1][f].n > 0
        /\ weeklyFile.counters = Some([f \in Fields |-> JNum(0)])

-----------------------------------------------------------------------------
(* C27: serialized runs from an absent ledger *)

\* C27: in serialized runs from an absent ledger that nothing else writes, a
\* run that fails has appended nothing, so the successful runs are the runs
\* that built a Snapshot; when a run is done, the ledger length is the number
\* of successful runs so far, and the weekly delta file holds the
\* INSUFFICIENT_HISTORY record if that run was the first successful one and a
\* DELTA_READY record if it was a later one. Between runs the ledger length
\* is the number of successful runs.
C27_InsufficientOnlyFirst ==
    /\ \A p \in Procs :
          /\ pc[p] = "failed" => snapshot[p] = NoSnapshot /\ snapshotsFile = before[p].ledger
          /\ pc[p] = "done" =>
                /\ LengthBefore(snapshotsFile) = clock
                /\ weeklyFile.k = "json"
                /\ weeklyFile.updatedAt = ToISOString(clock - 1)
                /\ clock = 1 => InsufficientShape(weeklyFile) /\ ~DeltaShape(weeklyFile)
                /\ clock >= 2 => DeltaShape(weeklyFile) /\ ~InsufficientShape(weeklyFile)
    /\ (\A q \in Procs : Finished(q)) => LengthBefore(snapshotsFile) = clock

\* C27 witness: of three runs one failed and two succeeded; the second
\* successful one is done and has written a DELTA_READY record
C27_Witness ==
    \E p \in Procs :
        /\ pc[p] = "done"
        /\ runs = 3
        /\ clock = 2
        /\ Len(snapshotsFile.items) = 2
        /\ DeltaShape(weeklyFile)

-----------------------------------------------------------------------------
(* C28: one section, never a mix *)

\* C28: getCounters reads one section only. When the report's unpulsed is an
\* object with at least one field that is no number, the run fails fatally
\* with no Snapshot built and the ledger and weekly delta files unchanged,
\* even when totals holds four numbers; a Snapshot that is built takes all four
\* counters from unpulsed unless unpulsed is null or absent, and only then
\* all four from totals.
C28_OneSectionOnly ==
    \A p \in Procs :
        (pc[p] # "idle" /\ api[p].k = "json" /\ api[p].value.t = "obj") =>
            LET a == api[p].value
            IN /\ (~Nullish(a.unpulsed) /\ ~FullSection(a.unpulsed)) =>
                     /\ pc[p] = "failed"
                     /\ snapshot[p] = NoSnapshot
                     /\ snapshotsFile = before[p].ledger
                     /\ weeklyFile = before[p].weekly
               /\ snapshot[p] # NoSnapshot =>
                     IF Nullish(a.unpulsed)
                     THEN \A f \in Fields : snapshot[p].counters[1][f] = a.totals[f]
                     ELSE \A f \in Fields : snapshot[p].counters[1][f] = a.unpulsed[f]

\* C28 witness: unpulsed lacks keys only, totals holds four numbers, and the
\* run has failed over a ledger of two entries
C28_Witness ==
    \E p \in Procs :
        /\ pc[p] = "failed"
        /\ api[p].k = "json" /\ api[p].value.t = "obj"
        /\ api[p].value.unpulsed = PartialNullSection
        /\ FullSection(api[p].value.totals)
        /\ before[p].ledger.k = "array"
        /\ Len(before[p].ledger.items) = 2
        /\ snapshotsFile = before[p].ledger

-----------------------------------------------------------------------------
(* C29: what the Extractor's reports give the weekly stage *)

\* the candidates of field f in the document of the raw capture
CandidatesOf(f) ==
    collectCandidates(Unwrap(rawFile.value), <<>>, <<>>, f, FIELD_PATTERNS[f])

\* C29: for every document and field, pickBest gives null for section
\* "totals" exactly when it gives null for section "unpulsed", and that is
\* exactly when the field has no candidate in the document; in every report
\* the Extractor writes, unpulsed = null implies that all four totals fields
\* are null; and every Snapshot built from such a report has the counters of
\* the report's unpulsed section, never those of totals in its place.
C29_NullInBothSections ==
    /\ (rawFile.k = "json" /\ rawFile.value.t # "null") =>
          \A f \in Fields :
              /\ pickBest(CandidatesOf(f), "totals") = None
                    <=> pickBest(CandidatesOf(f), "unpulsed") = None
              /\ pickBest(CandidatesOf(f), "totals") = None <=> CandidatesOf(f) = <<>>
    /\ apiFile.k = "json" =>
          (apiFile.value.unpulsed = JNull =>
              \A f \in Fields : apiFile.value.totals[f] = JNull)
    /\ \A p \in Procs :
          snapshot[p] # NoSnapshot =>
              /\ api[p].value.unpulsed # JNull
              /\ \A f \in Fields : snapshot[p].counters[1][f] = api[p].value.unpulsed[f]

\* C29 witness: a Snapshot was appended for a report extracted from a
\* document in which no candidate of any field lies under an unpulsed key
C29_Witness ==
    \E p \in Procs :
        /\ pc[p] = "done"
        /\ rawFile.k = "json"
        /\ api[p] = apiFile
        /\ \A f \in Fields :
              /\ CandidatesOf(f) # <<>>
              /\ \A i \in 1..Len(CandidatesOf(f)) : CandidatesOf(f)[i].section # "unpulsed"
        /\ snapshotsFile.k = "array"
        /\ snapshotsFile.items[Len(snapshotsFile.items)] = snapshot[p]

-----------------------------------------------------------------------------
(* C30: the weekly delta file against the ledger *)

\* C30: in serialized runs from an absent ledger, whenever no run is under
\* way and a weekly delta file has been written, the file agrees with the
\* ledger of n entries: its updatedAt is the capturedAt of the last entry,
\* and when n >= 2 its range is the capturedAt of the entry before the last,
\* "/", the capturedAt of the last, and its counters are delta of those two
\* entries' counters.
C30_WeeklyMatchesLedger ==
    ((\A q \in Procs : Finished(q)) /\ weeklyFile.k = "json") =>
        LET L == snapshotsFile.items
            n == Len(L)
        IN /\ snapshotsFile.k = "array"
           /\ n >= 1
           /\ weeklyFile.updatedAt = L[n].capturedAt[1]
           /\ n >= 2 =>
                 /\ weeklyFile.range =
                        Some(L[n - 1].capturedAt[1] \o "/" \o L[n].capturedAt[1])
                 /\ weeklyFile.counters =
                        Some(delta(L[n - 1].counters[1], L[n].counters[1]))

\* C30 witness: after two successful runs with a growing counter a third run
\* has failed, and the weekly delta file still is the second run's record
C30_Witness ==
    \E p \in Procs :
        /\ pc[p] = "failed"
        /\ snapshotsFile.k = "array"
        /\ Len(snapshotsFile.items) = 2
        /\ DeltaShape(weeklyFile)
        /\ weeklyFile.updatedAt = snapshotsFile.items[2].capturedAt[1]
        /\ \E f \in Fields : weeklyFile.counters[1][f].n > 0

====
